---- MODULE Spec2Model ----
(***************************************************************************)
(* Session issuance service of naee-server (src/src/services/              *)
(* users.services.ts): register, login, resendEmailVerify, verifyEmail,    *)
(* logout, refreshToken, forgotPassword and resetPassword over the users   *)
(* collection and the refreshTokens collection.                            *)
(*                                                                         *)
(* A call runs from one await to the next in one step.  An operation on    *)
(* a collection, or a mail, that the call has issued takes effect in a     *)
(* step of its own, after which the call resumes in another step; signing  *)
(* and decoding read the clock when they are called.  Between two steps    *)
(* the clock can move and another call can take steps.  When Promise.all   *)
(* rejects with the refusal of a mail, the call throws at once and a write *)
(* issued with the mail still reaches the store, possibly afterwards.      *)
(*                                                                         *)
(* A token string is modelled by the data that determines it: the signing  *)
(* key, the claims, and the order in which the claims are serialised       *)
(* (field "shape"); two sign calls with the same claims in the same second *)
(* give the same string.  The refreshTokens collection is a bag of         *)
(* records: insertOne never replaces, deleteOne removes one document.      *)
(***************************************************************************)
EXTENDS Integers, Sequences, FiniteSets, Bags, TLC

\* ---------------------------------------------------------------- bounds
MaxUsers == 1
MaxTime == 2
MaxRecords == 2
MaxDetached == 1

Emails == {"a@x.com"}
Passwords == {"secret", "hunter2"}
Procs == {1, 2}
UserIds == 1..MaxUsers

\* ------------------------------------------------- configured durations
JWT_ACCESS_TOKEN_EXPIRED_IN == 1
JWT_REFRESH_TOKEN_EXPIRED_IN == 2
JWT_VERIFY_EMAIL_TOKEN_EXPIRED_IN == 1
JWT_FORGOT_PASSWORD_TOKEN_EXPIRED_IN == 1

VARIABLES users, refreshTokens, detached, now, ret, chain, pc, loc, req

vars == <<users, refreshTokens, detached, now, ret, chain, pc, loc, req>>

\* ------------------------------------------------------------ token codec
\* The empty string '' stored in a token field of a user.
EmptyString == [tokenType |-> "none"]

\* signToken with options.expiresIn: iat and exp are appended to the payload.
SignToken(payload, privateKey, expiresIn, t) ==
  payload @@ [key |-> privateKey, iat |-> t, exp |-> t + expiresIn, shape |-> "ttl"]

\* signToken with exp already in the payload and no options: only iat is
\* appended, after the payload's own exp.
SignTokenWithExp(payload, privateKey, t) ==
  payload @@ [key |-> privateKey, iat |-> t, shape |-> "exp"]

\* verifyToken: the payload, or a failure for a wrong key or an expired token.
VerifyToken(token, secretOrPublicKey, t) ==
  IF token.key /= secretOrPublicKey THEN [failure |-> "InvalidSignature"]
  ELSE IF t >= token.exp THEN [failure |-> "Expired"]
  ELSE [failure |-> "none", iat |-> token.iat, exp |-> token.exp]

HashPassword(password) == <<"sha256", password>>

SignAccessToken(c, t) ==
  SignToken([userId |-> c.userId, tokenType |-> "Access", verify |-> c.verify,
             status |-> c.status, role |-> c.role],
            "JWT_ACCESS_TOKEN_SECRET", JWT_ACCESS_TOKEN_EXPIRED_IN, t)

\* Mutant: the exp passed in is ignored and the expiry is computed afresh.
SignRefreshToken_FreshExpiry(c, exp, t) ==
  SignToken([userId |-> c.userId, tokenType |-> "Refresh", status |-> c.status,
             verify |-> c.verify, role |-> c.role],
            "JWT_REFRESH_TOKEN_SECRET", JWT_REFRESH_TOKEN_EXPIRED_IN, t)

\* exp = 0 stands for an absent exp as well: `if (exp)` is false for both.
SignRefreshToken(c, exp, t) ==
  IF exp /= 0
  THEN SignTokenWithExp([userId |-> c.userId, tokenType |-> "Refresh", verify |-> c.verify,
                         status |-> c.status, role |-> c.role, exp |-> exp],
                        "JWT_REFRESH_TOKEN_SECRET", t)
  ELSE SignToken([userId |-> c.userId, tokenType |-> "Refresh", status |-> c.status,
                  verify |-> c.verify, role |-> c.role],
                 "JWT_REFRESH_TOKEN_SECRET", JWT_REFRESH_TOKEN_EXPIRED_IN, t)

SignVerifyEmailToken(userId, t) ==
  SignToken([userId |-> userId, tokenType |-> "VerifyEmail"],
            "JWT_VERIFY_EMAIL_TOKEN_SECRET", JWT_VERIFY_EMAIL_TOKEN_EXPIRED_IN, t)

SignForgotPasswordToken(userId, t) ==
  SignToken([userId |-> userId, tokenType |-> "ForgotPassword"],
            "JWT_FORGOT_PASSWORD_TOKEN_SECRET", JWT_FORGOT_PASSWORD_TOKEN_EXPIRED_IN, t)

SignAccessAndRefreshToken(c, exp, t) ==
  <<SignAccessToken(c, t), SignRefreshToken(c, exp, t)>>

DecodeRefreshToken(refreshToken, t) ==
  VerifyToken(refreshToken, "JWT_REFRESH_TOKEN_SECRET", t)

\* The claims the service reads off a user document.
ClaimsOf(userId, user) ==
  [userId |-> userId, verify |-> user.verify, status |-> user.status, role |-> user.role]

\* ------------------------------------------------------------ collections
\* new User({...}) with the schema's defaults.
NewUser(email, password, verifyEmailToken, t) ==
  [email |-> email, password |-> password, verify |-> "Unverified", status |-> "Active",
   role |-> "Customer", verifyEmailToken |-> verifyEmailToken,
   forgotPasswordToken |-> EmptyString, createdAt |-> t, updatedAt |-> t]

NewRefreshToken(token, iat, exp) == [token |-> token, iat |-> iat, exp |-> exp]

\* refreshTokens.insertOne
InsertOne(coll, doc) == coll (+) SetToBag({doc})

Matching(coll, token) == {d \in BagToSet(coll) : d.token = token}

\* Number of documents of the collection that hold the token.
CountOf(coll, token) ==
  LET m == Matching(coll, token)
  IN  IF m = {} THEN 0 ELSE CopiesIn(CHOOSE d \in m : TRUE, coll)

\* refreshTokens.deleteOne({ token }): removes one matching document, if any.
\* All documents of one token are equal (iat and exp are decoded from it).
DeleteOne(coll, token) ==
  LET m == Matching(coll, token)
  IN  IF m = {} THEN coll ELSE coll (-) SetToBag({CHOOSE d \in m : TRUE})

\* users.insertOne
InsertUser(coll, userId, doc) ==
  [i \in DOMAIN coll \cup {userId} |-> IF i = userId THEN doc ELSE coll[i]]

\* users.findOne({ _id }): the document or null.
Null == [email |-> "null"]
FindOne(coll, userId) == IF userId \in DOMAIN coll THEN coll[userId] ELSE Null

\* users.updateOne / findOneAndUpdate write: no document matched, nothing written.
UpdateOne(coll, userId, doc) ==
  IF userId \in DOMAIN coll THEN [coll EXCEPT ![userId] = doc] ELSE coll

\* omit(user, [...]): the sanitized view.
UserConfig(userId, user) ==
  [id |-> userId, email |-> user.email, createdAt |-> user.createdAt, updatedAt |-> user.updatedAt]

NoUser == [id |-> 0]
NoMail == [to |-> "nobody"]

\* ------------------------------------------------------------ call records
\* The claims a caller of login or refreshToken can pass.
ClaimsInputs ==
  [userId : UserIds, verify : {"Unverified", "Verified"}, status : {"Active"},
   role : {"Customer", "Admin"}]

NoClaims == [userId |-> 0]

\* The locals of a call in flight: its arguments and what it has computed so
\* far.  pending holds the operations of the await the call is at that have
\* not taken effect yet; refused says that the mail of that await was refused.
\* revoked, overlap, links and count are history kept for the properties.
IdleLoc ==
  [op |-> "none", userId |-> 0, email |-> "none", password |-> "none",
   token |-> EmptyString, claims |-> NoClaims, refreshTokenExp |-> 0,
   signed |-> EmptyString, doc |-> Null, user |-> Null, accessToken |-> EmptyString,
   refreshToken |-> EmptyString, failure |-> "none", iat |-> 0, exp |-> 0,
   pending |-> {}, refused |-> FALSE, deleted |-> 0, mailed |-> NoMail,
   revoked |-> FALSE, overlap |-> FALSE, links |-> {}, count |-> 0]

\* ret is the outcome of the last completed call: the call (op, userId, token),
\* whether it returned or threw, and what it returned and mailed.
Outcome(l, ok, err, access, refresh, user) ==
  [op |-> l.op, userId |-> l.userId, token |-> l.token, ok |-> ok, err |-> err,
   accessToken |-> access, refreshToken |-> refresh, mailed |-> l.mailed, user |-> user,
   deleted |-> l.deleted, overlap |-> l.overlap, again |-> FALSE, before |-> 0]

\* The call repeats the one completed before it, which returned.
Again(last, r) ==
  last.ok /\ last.op = r.op /\ last.userId = r.userId /\ last.token = r.token

NoCall == Outcome(IdleLoc, TRUE, "none", EmptyString, EmptyString, NoUser)

\* No request is being handled.
NoPayload == [tokenType |-> "none"]
NoRoute == [method |-> "none", path |-> "none", handlers |-> <<>>]
NoRequest == [route |-> NoRoute, authorization |-> EmptyString, decodedAuthorization |-> NoPayload,
              pos |-> 0, ran |-> <<>>, passed |-> {}, status |-> "idle"]

Init ==
  /\ users = [i \in {} |-> Null]
  /\ refreshTokens = EmptyBag
  /\ detached = EmptyBag
  /\ now = 1
  /\ ret = NoCall
  /\ chain = {}
  /\ pc = [p \in Procs |-> "idle"]
  /\ loc = [p \in Procs |-> IdleLoc]
  /\ req = NoRequest

\* Time passes (whole seconds), also while a call waits at an await.
Tick ==
  /\ now < MaxTime
  /\ now' = now + 1
  /\ UNCHANGED <<users, refreshTokens, detached, ret, chain, pc, loc, req>>

\* Calls in flight whose refreshTokens.insertOne has not reached the store.
Inserting ==
  {p \in Procs : /\ loc[p].op \in {"register", "login", "refreshToken"}
                 /\ ~(pc[p] = "register:insertToken" /\ loc[p].pending = {})
                 /\ ~(pc[p] = "login:insertToken" /\ loc[p].pending = {})
                 /\ ~(pc[p] = "refreshToken:insertToken" /\ loc[p].pending = {})}

\* refreshToken calls in flight whose deleteOne of the token has not reached
\* the store.
Deleting(token) ==
  {p \in Procs : /\ pc[p] = "refreshToken:signAndDelete"
                 /\ "delete" \in loc[p].pending
                 /\ loc[p].token = token}

\* Those of them whose deleteOne is sure to make room for their insertOne: as
\* many as the token has documents.
Replacing ==
  {p \in Procs : /\ p \in Deleting(loc[p].token)
                 /\ Cardinality({q \in Deleting(loc[p].token) : q < p})
                      < IF Matching(refreshTokens, loc[p].token) = {} THEN 0
                        ELSE CopiesIn(CHOOSE d \in Matching(refreshTokens, loc[p].token) : TRUE,
                                      refreshTokens)}

\* The collection has room for the document of one more call, counting the
\* documents the calls in flight will insert; freed is 1 when the new call
\* deletes a document first.
Room(freed) ==
  BagCardinality(refreshTokens) + Cardinality(Inserting) - Cardinality(Replacing) + 1 - freed
    <= MaxRecords

\* Users that calls in flight, or writes they left behind, are about to insert.
PendingUsers ==
  Cardinality({p \in Procs : \/ pc[p] = "register:signVerifyEmailToken"
                             \/ /\ pc[p] = "register:sendAndInsert"
                                /\ "write" \in loc[p].pending})
    + Cardinality({w \in BagToSet(detached) : w.op = "register"})

\* Refresh tokens a caller can hold: stored ones, the one just returned, the one just used.
KnownTokensOf(coll, r) ==
  {d.token : d \in BagToSet(coll)}
    \cup {x \in {r.refreshToken, r.token} : x.tokenType = "Refresh"}

KnownTokens == KnownTokensOf(refreshTokens, ret)

\* chain holds <<token, exp>> for every refresh token a caller can hold that
\* login or register issued with that exp, or that a refreshToken call given
\* the exp of the token it replaced produced from such a token.
Linked(links, coll, r) == {c \in chain \cup links : c[1] \in KnownTokensOf(coll, r)}

\* The first exps of the chains the old token is in, if the call is given the
\* old token's exp.
LinksOf(old, exp) ==
  IF exp = old.exp THEN {c[2] : c \in {x \in chain : x[1] = old}} ELSE {}

\* A call starts in the first free slot.
Free(p) == pc[p] = "idle" /\ \A q \in Procs : (q < p) => pc[q] /= "idle"

\* The call starts and runs to its first await, where it waits for ops.
Begin(p, label, ops, l) ==
  /\ Free(p)
  /\ pc' = [pc EXCEPT ![p] = label]
  /\ loc' = [loc EXCEPT ![p] = [l EXCEPT !.pending = ops]]
  /\ UNCHANGED <<now, ret, chain, req>>

\* The call waits at label for operation o, which has not taken effect yet.
Acts(p, label, o) == pc[p] = label /\ o \in loc[p].pending

\* Operation o has taken effect; the call still waits at its await.
Acted(p, o, l) ==
  /\ loc' = [loc EXCEPT ![p] = [l EXCEPT !.pending = loc[p].pending \ {o}]]
  /\ UNCHANGED <<now, ret, chain, pc, req>>

\* The await at label is over: every operation has taken effect, or
\* Promise.all has rejected with the refusal of the mail.
Settled(p, label) == pc[p] = label /\ (loc[p].pending = {} \/ loc[p].refused)

\* The call resumes after an await and runs to the next one, where it waits for ops.
Resume(p, label, ops, l) ==
  /\ pc' = [pc EXCEPT ![p] = label]
  /\ loc' = [loc EXCEPT ![p] = [l EXCEPT !.pending = ops]]
  /\ UNCHANGED <<now, ret, chain, req>>

\* The call returns r; links are the chain entries it adds.
Return(p, r, links) ==
  /\ ret' = [r EXCEPT !.again = Again(ret, r), !.before = ret.deleted]
  /\ chain' = Linked(links, refreshTokens', ret')
  /\ pc' = [pc EXCEPT ![p] = "idle"]
  /\ loc' = [loc EXCEPT ![p] = IdleLoc]
  /\ UNCHANGED <<now, req>>

\* The call throws: nothing is returned to the caller.
Throw(p, l, err) ==
  Return(p, Outcome(l, FALSE, err, EmptyString, EmptyString, NoUser), {})

\* The step of p that ends its call.
Returned(p) == pc[p] /= "idle" /\ pc'[p] = "idle"

\* ------------------------------------------------- writes and mail in flight
\* The write on the users collection a call has issued together with a mail.
WriteOf(l) == [op |-> l.op, userId |-> l.userId, doc |-> l.doc, signed |-> l.signed]

\* { $set: { verifyEmailToken }, $currentDate: { updatedAt: true } }
ResendEmailVerifySet(user, verifyEmailToken, t) ==
  [user EXCEPT !.verifyEmailToken = verifyEmailToken, !.updatedAt = t]

\* { $set: { forgotPasswordToken }, $currentDate: { updatedAt: true } }
ForgotPasswordSet(user, forgotPasswordToken, t) ==
  [user EXCEPT !.forgotPasswordToken = forgotPasswordToken, !.updatedAt = t]

\* The write reaches the users collection at time t: register's insertOne, or
\* the updateOne of resendEmailVerify or forgotPassword on the stored document.
UsersWrite(coll, w, t) ==
  IF w.op = "register" THEN InsertUser(coll, w.userId, w.doc)
  ELSE IF w.userId \notin DOMAIN coll THEN coll
  ELSE IF w.op = "resendEmailVerify"
       THEN UpdateOne(coll, w.userId, ResendEmailVerifySet(coll[w.userId], w.signed, t))
       ELSE UpdateOne(coll, w.userId, ForgotPasswordSet(coll[w.userId], w.signed, t))

\* Calls whose mail was refused while their write has not reached the store.
Leaving == {p \in Procs : loc[p].refused /\ "write" \in loc[p].pending}

\* The mail of the await at label is sent, or refused.
SendMail(p, label, sent, to) ==
  LET l == loc[p]
  IN  /\ Acts(p, label, "mail")
      /\ \/ sent
         \/ "write" \notin l.pending
         \/ BagCardinality(detached) + Cardinality(Leaving) < MaxDetached
      /\ UNCHANGED <<users, refreshTokens, detached>>
      /\ Acted(p, "mail", IF sent THEN [l EXCEPT !.mailed = [to |-> to, token |-> l.signed]]
                                   ELSE [l EXCEPT !.refused = TRUE])

\* The write of the await at label reaches the users collection.
WriteUsers(p, label) ==
  /\ Acts(p, label, "write")
  /\ users' = UsersWrite(users, WriteOf(loc[p]), now)
  /\ UNCHANGED <<refreshTokens, detached>>
  /\ Acted(p, "write", loc[p])

\* Promise.all([mail, write]) has rejected: the call throws, and a write that
\* has not reached the store yet stays in flight.
ThrowMailError(p) ==
  /\ detached' = IF "write" \in loc[p].pending
                 THEN detached (+) SetToBag({WriteOf(loc[p])})
                 ELSE detached
  /\ UNCHANGED <<users, refreshTokens>>
  /\ Throw(p, loc[p], "MailError")

\* A write left in flight by a call that has thrown reaches the store.
DetachedWrite ==
  \E w \in BagToSet(detached) :
    /\ users' = UsersWrite(users, w, now)
    /\ detached' = detached (-) SetToBag({w})
    /\ UNCHANGED <<refreshTokens, now, ret, chain, pc, loc, req>>

\* ------------------------------------- decoding and storing a refresh token
\* The call resumes with the pair and calls this.decodeRefreshToken(refreshToken),
\* which checks the token against the clock.
Decode(p, from, to) ==
  LET l == loc[p]
      decoded == DecodeRefreshToken(l.refreshToken, now)
  IN  /\ Settled(p, from)
      /\ UNCHANGED <<users, refreshTokens, detached>>
      /\ Resume(p, to, {},
                IF decoded.failure = "none"
                THEN [l EXCEPT !.iat = decoded.iat, !.exp = decoded.exp]
                ELSE [l EXCEPT !.failure = decoded.failure])

\* const { iat, exp } = await ...: the rejection is thrown; otherwise the call
\* issues refreshTokens.insertOne(new RefreshToken({ token, iat, exp })).
IssueInsertToken(p, from, to) ==
  /\ Settled(p, from)
  /\ UNCHANGED <<users, refreshTokens, detached>>
  /\ IF loc[p].failure /= "none"
     THEN Throw(p, loc[p], loc[p].failure)
     ELSE Resume(p, to, {"insert"}, loc[p])

\* The insertOne reaches the refreshTokens collection.
InsertToken(p, label) ==
  /\ Acts(p, label, "insert")
  /\ refreshTokens' = InsertOne(refreshTokens,
                                NewRefreshToken(loc[p].refreshToken, loc[p].iat, loc[p].exp))
  /\ UNCHANGED <<users, detached>>
  /\ Acted(p, "insert", loc[p])

\* The await of the insertOne is over: the call returns the pair.
ReturnPair(p, label, user, links) ==
  /\ Settled(p, label)
  /\ UNCHANGED <<users, refreshTokens, detached>>
  /\ Return(p, Outcome(loc[p], TRUE, "none", loc[p].accessToken, loc[p].refreshToken, user), links)

\* ---------------------------------------------------------------- register
\* Mutant: the verify-email token is mailed but not stored on the user.
RegisterUserDoc_NoToken(email, password, verifyEmailToken, t) ==
  NewUser(email, HashPassword(password), EmptyString, t)

RegisterUserDoc(email, password, verifyEmailToken, t) ==
  NewUser(email, HashPassword(password), verifyEmailToken, t)

\* const userId = new ObjectId(); this.signVerifyEmailToken(userId) is called
\* and awaited.
RegisterSignVerifyEmailToken(p, email, password) ==
  LET userId == Cardinality(DOMAIN users) + PendingUsers + 1
  IN  /\ userId \in UserIds
      /\ Room(0)
      /\ UNCHANGED <<users, refreshTokens, detached>>
      /\ Begin(p, "register:signVerifyEmailToken", {},
               [IdleLoc EXCEPT !.op = "register", !.userId = userId, !.email = email,
                               !.password = password,
                               !.signed = SignVerifyEmailToken(userId, now)])

\* The call resumes with the token, builds new User({...}) and issues
\* Promise.all([sendVerifyEmail(...), users.insertOne(...)]).
RegisterSendAndInsert(p) ==
  LET l == loc[p]
  IN  /\ Settled(p, "register:signVerifyEmailToken")
      /\ UNCHANGED <<users, refreshTokens, detached>>
      /\ Resume(p, "register:sendAndInsert", {"mail", "write"},
                [l EXCEPT !.doc = RegisterUserDoc(l.email, l.password, l.signed, now)])

\* sendVerifyEmail(email, verifyEmailToken) settles.
RegisterSendVerifyEmail(p, sent) ==
  SendMail(p, "register:sendAndInsert", sent, loc[p].email)

\* users.insertOne reaches the store.
RegisterInsertUser(p) == WriteUsers(p, "register:sendAndInsert")

\* The await of Promise.all is over: the call throws the refusal of the mail,
\* or issues users.findOne({ _id: userId }).
RegisterIssueFindOne(p) ==
  /\ Settled(p, "register:sendAndInsert")
  /\ IF loc[p].refused
     THEN ThrowMailError(p)
     ELSE /\ UNCHANGED <<users, refreshTokens, detached>>
          /\ Resume(p, "register:findOne", {"read"}, loc[p])

\* users.findOne reads the store.
RegisterFindOne(p) ==
  /\ Acts(p, "register:findOne", "read")
  /\ UNCHANGED <<users, refreshTokens, detached>>
  /\ Acted(p, "read", [loc[p] EXCEPT !.user = FindOne(users, loc[p].userId)])

\* The call resumes with the user, reads its claims (TypeError on null) and
\* calls this.signAccessAndRefreshToken({ userId, verify, status, role }).
RegisterSign(p) ==
  LET l == loc[p]
      pair == SignAccessAndRefreshToken(ClaimsOf(l.userId, l.user), 0, now)
  IN  /\ Settled(p, "register:findOne")
      /\ UNCHANGED <<users, refreshTokens, detached>>
      /\ IF l.user = Null
         THEN Throw(p, l, "TypeError")
         ELSE Resume(p, "register:sign", {},
                     [l EXCEPT !.accessToken = pair[1], !.refreshToken = pair[2]])

RegisterDecode(p) == Decode(p, "register:sign", "register:decode")

RegisterIssueInsertToken(p) == IssueInsertToken(p, "register:decode", "register:insertToken")

RegisterInsertToken(p) == InsertToken(p, "register:insertToken")

\* return { accessToken, refreshToken, user: userConfig }
RegisterReturn(p) ==
  ReturnPair(p, "register:insertToken", UserConfig(loc[p].userId, loc[p].user),
             {<<loc[p].refreshToken, loc[p].exp>>})

\* ------------------------------------------------------------------- login
\* login(user): this.signAccessAndRefreshToken is called with the claims of
\* the document the call is handed, and awaited.
LoginSign(p, user) ==
  LET pair == SignAccessAndRefreshToken(user, 0, now)
  IN  /\ Room(0)
      /\ UNCHANGED <<users, refreshTokens, detached>>
      /\ Begin(p, "login:sign", {},
               [IdleLoc EXCEPT !.op = "login", !.userId = user.userId, !.claims = user,
                               !.accessToken = pair[1], !.refreshToken = pair[2]])

LoginDecode(p) == Decode(p, "login:sign", "login:decode")

LoginIssueInsertToken(p) == IssueInsertToken(p, "login:decode", "login:insertToken")

LoginInsertToken(p) == InsertToken(p, "login:insertToken")

\* return { accessToken, refreshToken }
LoginReturn(p) ==
  ReturnPair(p, "login:insertToken", NoUser, {<<loc[p].refreshToken, loc[p].exp>>})

\* ------------------------------------------------------- resendEmailVerify
\* Promise.all([this.signVerifyEmailToken(userId), users.findOne({ _id })]) is
\* issued and awaited.
ResendEmailVerifySign(p, userId) ==
  /\ UNCHANGED <<users, refreshTokens, detached>>
  /\ Begin(p, "resendEmailVerify:signAndFindOne", {"read"},
           [IdleLoc EXCEPT !.op = "resendEmailVerify", !.userId = userId,
                           !.signed = SignVerifyEmailToken(userId, now)])

\* users.findOne reads the store.
ResendEmailVerifyFindOne(p) ==
  /\ Acts(p, "resendEmailVerify:signAndFindOne", "read")
  /\ UNCHANGED <<users, refreshTokens, detached>>
  /\ Acted(p, "read", [loc[p] EXCEPT !.user = FindOne(users, loc[p].userId)])

\* The call resumes with the token and the user and issues
\* Promise.all([sendVerifyEmail(user.email, ...), users.updateOne(...)]);
\* reading the email of a null user throws before either is issued.
ResendEmailVerifySendAndUpdate(p) ==
  /\ Settled(p, "resendEmailVerify:signAndFindOne")
  /\ UNCHANGED <<users, refreshTokens, detached>>
  /\ IF loc[p].user = Null
     THEN Throw(p, loc[p], "TypeError")
     ELSE Resume(p, "resendEmailVerify:sendAndUpdate", {"mail", "write"}, loc[p])

\* sendVerifyEmail(user.email, verifyEmailToken) settles.
ResendEmailVerifySendVerifyEmail(p, sent) ==
  SendMail(p, "resendEmailVerify:sendAndUpdate", sent, loc[p].user.email)

\* users.updateOne reaches the store.
ResendEmailVerifyUpdateOne(p) == WriteUsers(p, "resendEmailVerify:sendAndUpdate")

\* The await of Promise.all is over: the call throws the refusal of the mail,
\* or returns true.
ResendEmailVerifyReturn(p) ==
  /\ Settled(p, "resendEmailVerify:sendAndUpdate")
  /\ IF loc[p].refused
     THEN ThrowMailError(p)
     ELSE /\ UNCHANGED <<users, refreshTokens, detached>>
          /\ Return(p, Outcome(loc[p], TRUE, "none", EmptyString, EmptyString, NoUser), {})

\* ------------------------------------------------------------- verifyEmail
\* Mutant: the status is set but the stored token is left in place.
VerifyEmailSet_KeepToken(user, t) ==
  [user EXCEPT !.verify = "Verified", !.updatedAt = t]

\* { $set: { verifyEmailToken: '', verify: Verified }, $currentDate: { updatedAt: true } }
VerifyEmailSet(user, t) ==
  [user EXCEPT !.verifyEmailToken = EmptyString, !.verify = "Verified", !.updatedAt = t]

\* findOneAndUpdate without returnDocument resolves to the document as it was
\* before the update (or null).
FindOneAndUpdate(coll, userId) == FindOne(coll, userId)

\* verifyEmail(userId): users.findOneAndUpdate is issued and awaited.
VerifyEmail(p, userId) ==
  /\ UNCHANGED <<users, refreshTokens, detached>>
  /\ Begin(p, "verifyEmail:findOneAndUpdate", {"write"},
           [IdleLoc EXCEPT !.op = "verifyEmail", !.userId = userId])

\* users.findOneAndUpdate reaches the store.
VerifyEmailFindOneAndUpdate(p) ==
  LET userId == loc[p].userId
  IN  /\ Acts(p, "verifyEmail:findOneAndUpdate", "write")
      /\ users' = IF userId \in DOMAIN users
                  THEN UpdateOne(users, userId, VerifyEmailSet(users[userId], now))
                  ELSE users
      /\ UNCHANGED <<refreshTokens, detached>>
      /\ Acted(p, "write", [loc[p] EXCEPT !.user = FindOneAndUpdate(users, userId)])

\* The call resumes with the user, reads its claims (TypeError on null) and
\* calls this.signAccessAndRefreshToken({ userId, role, status, verify }).
VerifyEmailSign(p) ==
  LET l == loc[p]
      pair == SignAccessAndRefreshToken(ClaimsOf(l.userId, l.user), 0, now)
  IN  /\ Settled(p, "verifyEmail:findOneAndUpdate")
      /\ UNCHANGED <<users, refreshTokens, detached>>
      /\ IF l.user = Null
         THEN Throw(p, l, "TypeError")
         ELSE Resume(p, "verifyEmail:sign", {},
                     [l EXCEPT !.accessToken = pair[1], !.refreshToken = pair[2]])

\* return { accessToken, refreshToken, user: userConfig }
VerifyEmailReturn(p) ==
  ReturnPair(p, "verifyEmail:sign", UserConfig(loc[p].userId, loc[p].user), {})

\* ------------------------------------------------------------------ logout
\* logout(refreshToken): refreshTokens.deleteOne({ token }) is issued and awaited.
Logout(p, refreshToken) ==
  /\ UNCHANGED <<users, refreshTokens, detached>>
  /\ Begin(p, "logout:deleteOne", {"delete"},
           [IdleLoc EXCEPT !.op = "logout", !.token = refreshToken])

\* refreshTokens.deleteOne reaches the store.
LogoutDeleteOne(p) ==
  /\ Acts(p, "logout:deleteOne", "delete")
  /\ refreshTokens' = DeleteOne(refreshTokens, loc[p].token)
  /\ UNCHANGED <<users, detached>>
  /\ Acted(p, "delete", [loc[p] EXCEPT !.deleted = BagCardinality(refreshTokens)
                                                    - BagCardinality(refreshTokens')])

\* return true
LogoutReturn(p) ==
  /\ Settled(p, "logout:deleteOne")
  /\ UNCHANGED <<users, refreshTokens, detached>>
  /\ Return(p, Outcome(loc[p], TRUE, "none", EmptyString, EmptyString, NoUser), {})

\* ------------------------------------------------------------ refreshToken
\* Promise.all([this.signAccessAndRefreshToken({ ..., exp: refreshTokenExp }),
\*              refreshTokens.deleteOne({ token: refreshToken })]) is issued
\* and awaited.
RefreshTokenSign(p, refreshToken, claims, refreshTokenExp) ==
  LET pair == SignAccessAndRefreshToken(claims, refreshTokenExp, now)
  IN  /\ Room(IF Cardinality(Deleting(refreshToken)) < CountOf(refreshTokens, refreshToken)
              THEN 1 ELSE 0)
      /\ UNCHANGED <<users, refreshTokens, detached>>
      /\ Begin(p, "refreshToken:signAndDelete", {"delete"},
               [IdleLoc EXCEPT !.op = "refreshToken", !.userId = claims.userId,
                               !.token = refreshToken, !.claims = claims,
                               !.refreshTokenExp = refreshTokenExp,
                               !.accessToken = pair[1], !.refreshToken = pair[2],
                               !.revoked = (ret.op = "logout" /\ ret.token = refreshToken),
                               !.overlap = \E q \in Procs \ {p} :
                                              /\ loc[q].op = "refreshToken"
                                              /\ loc[q].token = refreshToken,
                               !.links = LinksOf(refreshToken, refreshTokenExp),
                               !.count = BagCardinality(refreshTokens)])

\* refreshTokens.deleteOne reaches the store.
RefreshTokenDeleteOne(p) ==
  /\ Acts(p, "refreshToken:signAndDelete", "delete")
  /\ refreshTokens' = DeleteOne(refreshTokens, loc[p].token)
  /\ UNCHANGED <<users, detached>>
  /\ Acted(p, "delete", [loc[p] EXCEPT !.deleted = BagCardinality(refreshTokens)
                                                    - BagCardinality(refreshTokens')])

\* Mutant: the call fails with NotFound when its delete removed no document.
RefreshTokenDecode_IfDeleted(p) ==
  IF loc[p].deleted = 0
  THEN /\ Settled(p, "refreshToken:signAndDelete")
       /\ UNCHANGED <<users, refreshTokens, detached>>
       /\ Throw(p, loc[p], "NotFound")
  ELSE Decode(p, "refreshToken:signAndDelete", "refreshToken:decode")

\* The result of deleteOne is dropped.
RefreshTokenDecode(p) == Decode(p, "refreshToken:signAndDelete", "refreshToken:decode")

RefreshTokenIssueInsertToken(p) ==
  IssueInsertToken(p, "refreshToken:decode", "refreshToken:insertToken")

RefreshTokenInsertToken(p) == InsertToken(p, "refreshToken:insertToken")

\* return { accessToken: newAccessToken, refreshToken: newRefreshToken }
RefreshTokenReturn(p) ==
  ReturnPair(p, "refreshToken:insertToken", NoUser,
             {<<loc[p].refreshToken, e>> : e \in loc[p].links})

\* ---------------------------------------------------------- forgotPassword
\* forgotPassword({ userId, email }): this.signForgotPasswordToken(userId) is
\* called and awaited.
ForgotPasswordSign(p, userId, email) ==
  /\ UNCHANGED <<users, refreshTokens, detached>>
  /\ Begin(p, "forgotPassword:sign", {},
           [IdleLoc EXCEPT !.op = "forgotPassword", !.userId = userId, !.email = email,
                           !.signed = SignForgotPasswordToken(userId, now)])

\* The call resumes with the token and issues
\* Promise.all([sendForgotPasswordEmail(email, ...), users.updateOne(...)]).
ForgotPasswordSendAndUpdate(p) ==
  /\ Settled(p, "forgotPassword:sign")
  /\ UNCHANGED <<users, refreshTokens, detached>>
  /\ Resume(p, "forgotPassword:sendAndUpdate", {"mail", "write"}, loc[p])

\* sendForgotPasswordEmail(email, forgotPasswordToken) settles.
ForgotPasswordSendEmail(p, sent) ==
  SendMail(p, "forgotPassword:sendAndUpdate", sent, loc[p].email)

\* users.updateOne reaches the store.
ForgotPasswordUpdateOne(p) == WriteUsers(p, "forgotPassword:sendAndUpdate")

\* The await of Promise.all is over: the call throws the refusal of the mail,
\* or returns.
ForgotPasswordReturn(p) ==
  /\ Settled(p, "forgotPassword:sendAndUpdate")
  /\ IF loc[p].refused
     THEN ThrowMailError(p)
     ELSE /\ UNCHANGED <<users, refreshTokens, detached>>
          /\ Return(p, Outcome(loc[p], TRUE, "none", EmptyString, EmptyString, NoUser), {})

\* ----------------------------------------------------------- resetPassword
\* { $set: { password: hashPassword(password), forgotPasswordToken: '' },
\*   $currentDate: { createdAt: true } }
ResetPasswordSet(user, password, t) ==
  [user EXCEPT !.password = HashPassword(password), !.forgotPasswordToken = EmptyString,
               !.createdAt = t]

\* resetPassword({ password, userId }): users.findOneAndUpdate is issued and awaited.
ResetPassword(p, userId, password) ==
  /\ UNCHANGED <<users, refreshTokens, detached>>
  /\ Begin(p, "resetPassword:findOneAndUpdate", {"write"},
           [IdleLoc EXCEPT !.op = "resetPassword", !.userId = userId, !.password = password])

\* users.findOneAndUpdate reaches the store.
ResetPasswordFindOneAndUpdate(p) ==
  LET userId == loc[p].userId
  IN  /\ Acts(p, "resetPassword:findOneAndUpdate", "write")
      /\ users' = IF userId \in DOMAIN users
                  THEN UpdateOne(users, userId,
                                 ResetPasswordSet(users[userId], loc[p].password, now))
                  ELSE users
      /\ UNCHANGED <<refreshTokens, detached>>
      /\ Acted(p, "write", [loc[p] EXCEPT !.user = FindOneAndUpdate(users, userId)])

\* The call resumes with the user, reads its claims (TypeError on null) and
\* calls this.signAccessAndRefreshToken({ userId, verify, role, status }).
ResetPasswordSign(p) ==
  LET l == loc[p]
      pair == SignAccessAndRefreshToken(ClaimsOf(l.userId, l.user), 0, now)
  IN  /\ Settled(p, "resetPassword:findOneAndUpdate")
      /\ UNCHANGED <<users, refreshTokens, detached>>
      /\ IF l.user = Null
         THEN Throw(p, l, "TypeError")
         ELSE Resume(p, "resetPassword:sign", {},
                     [l EXCEPT !.accessToken = pair[1], !.refreshToken = pair[2]])

\* return { accessToken, refreshToken, user: userConfig }
ResetPasswordReturn(p) ==
  ReturnPair(p, "resetPassword:sign", UserConfig(loc[p].userId, loc[p].user), {})

\* ---------------------------------------------------------- specifications
\* The claims the refresh-token route reads off the decoded old token.
ClaimsIn(token) ==
  [userId |-> token.userId, verify |-> token.verify, status |-> token.status, role |-> token.role]

CustomerClaims == {c \in ClaimsInputs : c.role = "Customer"}

UnverifiedCustomer == {c \in CustomerClaims : c.verify = "Unverified"}

\* The exp a caller can pass to refreshToken: the decoded exp of the old token,
\* or another one.
ExpInputs(token) == {token.exp, token.exp - 1}

\* The steps of the calls that run in slot p.
RegisterSteps(p, passwords) ==
  \/ \E e \in Emails, w \in passwords : RegisterSignVerifyEmailToken(p, e, w)
  \/ RegisterSendAndInsert(p)
  \/ \E sent \in BOOLEAN : RegisterSendVerifyEmail(p, sent)
  \/ RegisterInsertUser(p)
  \/ RegisterIssueFindOne(p)
  \/ RegisterFindOne(p)
  \/ RegisterSign(p)
  \/ RegisterDecode(p)
  \/ RegisterIssueInsertToken(p)
  \/ RegisterInsertToken(p)
  \/ RegisterReturn(p)

LoginSteps(p, inputs) ==
  \/ \E user \in inputs : LoginSign(p, user)
  \/ LoginDecode(p)
  \/ LoginIssueInsertToken(p)
  \/ LoginInsertToken(p)
  \/ LoginReturn(p)

LogoutSteps(p) ==
  \/ \E t \in KnownTokens : Logout(p, t)
  \/ LogoutDeleteOne(p)
  \/ LogoutReturn(p)

\* own: the call is given the claims and the exp of the old token, as the
\* refresh-token route does; otherwise any of the inputs and either exp.
RefreshTokenSteps(p, inputs, own) ==
  \/ \E t \in KnownTokens :
       \E c \in (IF own THEN {ClaimsIn(t)} ELSE inputs) :
         \E x \in (IF own THEN {t.exp} ELSE ExpInputs(t)) :
           RefreshTokenSign(p, t, c, x)
  \/ RefreshTokenDeleteOne(p)
  \/ RefreshTokenDecode(p)
  \/ RefreshTokenIssueInsertToken(p)
  \/ RefreshTokenInsertToken(p)
  \/ RefreshTokenReturn(p)

ResendEmailVerifySteps(p) ==
  \/ \E u \in UserIds : ResendEmailVerifySign(p, u)
  \/ ResendEmailVerifyFindOne(p)
  \/ ResendEmailVerifySendAndUpdate(p)
  \/ \E sent \in BOOLEAN : ResendEmailVerifySendVerifyEmail(p, sent)
  \/ ResendEmailVerifyUpdateOne(p)
  \/ ResendEmailVerifyReturn(p)

VerifyEmailSteps(p) ==
  \/ \E u \in UserIds : VerifyEmail(p, u)
  \/ VerifyEmailFindOneAndUpdate(p)
  \/ VerifyEmailSign(p)
  \/ VerifyEmailReturn(p)

ForgotPasswordSteps(p) ==
  \/ \E u \in UserIds, e \in Emails : ForgotPasswordSign(p, u, e)
  \/ ForgotPasswordSendAndUpdate(p)
  \/ \E sent \in BOOLEAN : ForgotPasswordSendEmail(p, sent)
  \/ ForgotPasswordUpdateOne(p)
  \/ ForgotPasswordReturn(p)

ResetPasswordSteps(p, passwords) ==
  \/ \E u \in UserIds, w \in passwords : ResetPassword(p, u, w)
  \/ ResetPasswordFindOneAndUpdate(p)
  \/ ResetPasswordSign(p)
  \/ ResetPasswordReturn(p)

\* The service: every call, any arguments, two calls in flight at once,
\* interleaved at their awaits and with the operations they wait for.
Next ==
  \/ Tick
  \/ DetachedWrite
  \/ \E p \in Procs : RegisterSteps(p, Passwords)
  \/ \E p \in Procs : LoginSteps(p, ClaimsInputs)
  \/ \E p \in Procs : LogoutSteps(p)
  \/ \E p \in Procs : RefreshTokenSteps(p, ClaimsInputs, FALSE)
  \/ \E p \in Procs : ResendEmailVerifySteps(p)
  \/ \E p \in Procs : VerifyEmailSteps(p)
  \/ \E p \in Procs : ForgotPasswordSteps(p)
  \/ \E p \in Procs : ResetPasswordSteps(p, Passwords)

Spec == Init /\ [][Next]_vars

\* The session calls, one call at a time; login is handed an unverified
\* customer, refreshToken is given any customer claims and either exp.
NextSession ==
  \/ Tick
  \/ DetachedWrite
  \/ RegisterSteps(1, {"secret"})
  \/ LoginSteps(1, UnverifiedCustomer)
  \/ LogoutSteps(1)
  \/ RefreshTokenSteps(1, CustomerClaims, FALSE)

SpecSession == Init /\ [][NextSession]_vars

\* login, logout and refreshToken, two calls in flight at once, within one
\* second of the clock; refreshToken is given the claims and the exp of the
\* old token.
NextConc ==
  \/ \E p \in Procs : LoginSteps(p, UnverifiedCustomer)
  \/ \E p \in Procs : LogoutSteps(p)
  \/ \E p \in Procs : RefreshTokenSteps(p, {}, TRUE)

SpecConc == Init /\ [][NextConc]_vars

\* register and the calls on the verification of a user's email, two calls
\* in flight at once.
NextEmail ==
  \/ Tick
  \/ DetachedWrite
  \/ \E p \in Procs : RegisterSteps(p, {"secret"})
  \/ \E p \in Procs : ResendEmailVerifySteps(p)
  \/ \E p \in Procs : VerifyEmailSteps(p)

SpecEmail == Init /\ [][NextEmail]_vars

\* register and the calls on a user's password, two calls in flight at once.
NextPassword ==
  \/ Tick
  \/ DetachedWrite
  \/ \E p \in Procs : RegisterSteps(p, {"secret"})
  \/ \E p \in Procs : ForgotPasswordSteps(p)
  \/ \E p \in Procs : ResetPasswordSteps(p, {"hunter2"})

SpecPassword == Init /\ [][NextPassword]_vars

\* ------------------------------------------------------------ HTTP routers
\* A route: its method, its path and the handlers it registers, in the order
\* they are passed to the router; the last one is the wrapped controller.
Route(method, path, handlers) == [method |-> method, path |-> path, handlers |-> handlers]

createAddressRoute ==
  Route("POST", "/",
        <<"accessTokenValidator", "verifiedUserValidator", "createAddressValidator", "createAddressController">>)

\* Mutant: the addressId validator is registered before the verification gate.
updateAddressRoute_ValidatorBeforeGate ==
  Route("PUT", "/:addressId",
        <<"accessTokenValidator", "addressIdValidator", "verifiedUserValidator", "createAddressValidator", "filterReqBodyMiddleware", "updateAddressController">>)

updateAddressRoute ==
  Route("PUT", "/:addressId",
        <<"accessTokenValidator", "verifiedUserValidator", "addressIdValidator", "createAddressValidator", "filterReqBodyMiddleware", "updateAddressController">>)

deleteAddressRoute ==
  Route("DELETE", "/:addressId",
        <<"accessTokenValidator", "verifiedUserValidator", "addressIdValidator", "deleteAddressController">>)

setDefaultAddressRoute ==
  Route("POST", "/:addressId/set-default",
        <<"accessTokenValidator", "verifiedUserValidator", "addressIdValidator", "setDefaultAddressController">>)

getAllAddresesRoute ==
  Route("GET", "/all",
        <<"accessTokenValidator", "verifiedUserValidator", "paginationValidator", "getAllAddresesController">>)

getProvincesRoute ==
  Route("GET", "/provinces",
        <<"getProvincesController">>)

getDistrictsRoute ==
  Route("GET", "/provinces/:provinceId/districts",
        <<"getDistrictsController">>)

getWardsRoute ==
  Route("GET", "/provinces/:provinceId/districts/:districtId/wards",
        <<"getWardsController">>)

getStreetsRoute ==
  Route("GET", "/provinces/:provinceId/districts/:districtId/streets",
        <<"getStreetsController">>)

getOneAddressRoute ==
  Route("GET", "/:addressId",
        <<"accessTokenValidator", "verifiedUserValidator", "addressIdValidator", "getOneAddressController">>)

addToCartRoute ==
  Route("POST", "/add-to-cart/products/:productId",
        <<"accessTokenValidator", "verifiedUserValidator", "productIdValidator", "addToCartValidator", "addToCartController">>)

updateCartItemQuantityRoute ==
  Route("PATCH", "/:cartItemId/quantity",
        <<"accessTokenValidator", "verifiedUserValidator", "cartItemIdValidator", "updateCartItemQuantityValidator", "updateCartItemQuantityController">>)

deleteCartItemsRoute ==
  Route("DELETE", "/:cartItemId?",
        <<"accessTokenValidator", "verifiedUserValidator", "cartItemIdOptionalValidator", "deleteCartItemsController">>)

getCartItemsRoute ==
  Route("GET", "/",
        <<"accessTokenValidator", "verifiedUserValidator", "paginationValidator", "getCartItemsController">>)

createCategoryRoute ==
  Route("POST", "/categories",
        <<"accessTokenValidator", "isAdminValidator", "createProductCategoryValidator", "createCategoryController">>)

updateCategoryRoute ==
  Route("PATCH", "/categories/:productCategoryId",
        <<"accessTokenValidator", "isAdminValidator", "productCategoryIdValidator", "createProductCategoryValidator", "filterReqBodyMiddleware", "updateCategoryController">>)

deleteCategoryRoute ==
  Route("DELETE", "/categories/:productCategoryId",
        <<"accessTokenValidator", "isAdminValidator", "productCategoryIdValidator", "deleteCategoryController">>)

getAllCategoriesRoute ==
  Route("GET", "/categories/all",
        <<"paginationValidator", "getAllCategoriesController">>)

createBrandRoute ==
  Route("POST", "/brands",
        <<"accessTokenValidator", "isAdminValidator", "createBrandValidator", "createBrandController">>)

updateBrandRoute ==
  Route("PUT", "/brands/:brandId",
        <<"accessTokenValidator", "isAdminValidator", "brandIdValidator", "createBrandValidator", "filterReqBodyMiddleware", "updateBrandController">>)

deleteBrandRoute ==
  Route("DELETE", "/brands/:brandId",
        <<"accessTokenValidator", "isAdminValidator", "brandIdValidator", "deleteBrandController">>)

getAllBrandsRoute ==
  Route("GET", "/brands/all",
        <<"paginationValidator", "getAllBrandsController">>)

createProductRoute ==
  Route("POST", "/",
        <<"accessTokenValidator", "isAdminValidator", "createProductValidator", "filterReqBodyMiddleware", "createProductController">>)

updateProductRoute ==
  Route("PUT", "/:productId",
        <<"accessTokenValidator", "isAdminValidator", "productIdValidator", "createProductValidator", "filterReqBodyMiddleware", "updateProductController">>)

deleteProductRoute ==
  Route("DELETE", "/:productId",
        <<"accessTokenValidator", "isAdminValidator", "productIdValidator", "deleteProductController">>)

getProductsRoute ==
  Route("GET", "/",
        <<"paginationValidator", "getProductsController">>)

addressesRouter ==
  <<createAddressRoute,
    updateAddressRoute,
    deleteAddressRoute,
    setDefaultAddressRoute,
    getAllAddresesRoute,
    getProvincesRoute,
    getDistrictsRoute,
    getWardsRoute,
    getStreetsRoute,
    getOneAddressRoute>>

cartItemsRouter ==
  <<addToCartRoute,
    updateCartItemQuantityRoute,
    deleteCartItemsRoute,
    getCartItemsRoute>>

productsRouter ==
  <<createCategoryRoute,
    updateCategoryRoute,
    deleteCategoryRoute,
    getAllCategoriesRoute,
    createBrandRoute,
    updateBrandRoute,
    deleteBrandRoute,
    getAllBrandsRoute,
    createProductRoute,
    updateProductRoute,
    deleteProductRoute,
    getProductsRoute>>

\* The routes of the three routers.
Routes ==
  {addressesRouter[i] : i \in DOMAIN addressesRouter}
    \cup {cartItemsRouter[i] : i \in DOMAIN cartItemsRouter}
    \cup {productsRouter[i] : i \in DOMAIN productsRouter}

Gates == {"verifiedUserValidator", "isAdminValidator"}

\* wrapRequestHandler(controller): the business handler of the route.
Controller(route) == route.handlers[Len(route.handlers)]

HasGate(route) == \E i \in DOMAIN route.handlers : route.handlers[i] \in Gates

\* Routes that create, update or delete.
Mutating(route) == route.method \in {"POST", "PUT", "PATCH", "DELETE"}

\* The Authorization header of a request: missing, an access token signed at or
\* before now, or a token signed with another key.
AuthorizationInputs ==
  {EmptyString}
    \cup {SignAccessToken(c, t) : c \in ClaimsInputs, t \in 1..now}
    \cup {SignRefreshToken(c, 0, now) : c \in ClaimsInputs}

\* accessTokenValidator: verifies the bearer token with the access-token key;
\* the decoded payload, or the failure.
AccessTokenValidator(authorization, t) ==
  IF authorization = EmptyString THEN [failure |-> "Missing"]
  ELSE IF VerifyToken(authorization, "JWT_ACCESS_TOKEN_SECRET", t).failure /= "none"
       THEN [failure |-> VerifyToken(authorization, "JWT_ACCESS_TOKEN_SECRET", t).failure]
       ELSE [failure |-> "none", tokenType |-> "Access", verify |-> authorization.verify,
             role |-> authorization.role, status |-> authorization.status,
             userId |-> authorization.userId]

\* verifiedUserValidator / isAdminValidator on the decoded claims.
GateAllows(gate, decoded) ==
  IF gate = "verifiedUserValidator" THEN decoded.verify = "Verified"
  ELSE decoded.role = "Admin"

\* A request arrives on a route.
Receive(route, authorization) ==
  /\ req.status /= "running"
  /\ req' = [route |-> route, authorization |-> authorization,
             decodedAuthorization |-> NoPayload, pos |-> 1, ran |-> <<>>, passed |-> {},
             status |-> "running"]
  /\ UNCHANGED <<users, refreshTokens, detached, now, ret, chain, pc, loc>>

\* next(): the handler passed, the following one is due.
Passed(h, decoded) ==
  [req EXCEPT !.ran = Append(req.ran, h), !.passed = req.passed \cup {h},
              !.pos = req.pos + 1, !.decodedAuthorization = decoded]

\* The handler ended the request: an error went to the error handler, or the
\* controller answered.
Ended(h, status) ==
  [req EXCEPT !.ran = Append(req.ran, h), !.status = status]

\* The handler due on the request runs; valid is the outcome of a validator
\* of the request's parameters or body.
Handle(valid) ==
  LET h == req.route.handlers[req.pos]
      decoded == AccessTokenValidator(req.authorization, now)
  IN  /\ req.status = "running"
      /\ UNCHANGED <<users, refreshTokens, detached, now, ret, chain, pc, loc>>
      /\ req' =
           IF h = Controller(req.route) THEN Ended(h, "OK")
           ELSE IF h = "accessTokenValidator"
             THEN IF decoded.failure = "none" THEN Passed(h, decoded)
                  ELSE Ended(h, "Unauthorized")
           ELSE IF h \in Gates
             THEN IF req.decodedAuthorization = NoPayload THEN Ended(h, "Error")
                  ELSE IF GateAllows(h, req.decodedAuthorization)
                       THEN Passed(h, req.decodedAuthorization)
                       ELSE Ended(h, "Forbidden")
           ELSE IF h = "filterReqBodyMiddleware" THEN Passed(h, req.decodedAuthorization)
           ELSE IF valid THEN Passed(h, req.decodedAuthorization)
                ELSE Ended(h, "Invalid")

NextRoutes ==
  \/ Tick
  \/ \E r \in Routes : \E a \in AuthorizationInputs : Receive(r, a)
  \/ \E v \in BOOLEAN : Handle(v)

SpecRoutes == Init /\ [][NextRoutes]_vars

\* ------------------------------------------------------------------ claims
RefreshOps == {"register", "login", "verifyEmail", "refreshToken", "resetPassword"}

\* C1: after logout(t) has returned, a refreshToken call made with t (and t's
\* exp) fails with NotFound, returns no pair and inserts no RefreshToken
\* document.
C1_RevokedTokenIsNotRotated ==
  [][\A p \in Procs :
       (/\ loc[p].op = "refreshToken"
        /\ loc[p].revoked
        /\ loc[p].refreshTokenExp = loc[p].token.exp)
         => /\ RefreshTokenInsertToken(p) => refreshTokens' = refreshTokens
            /\ Returned(p) => /\ ~ret'.ok
                              /\ ret'.err = "NotFound"
                              /\ ret'.refreshToken = EmptyString]_vars

\* C2: every refresh token returned by register, login, verifyEmail,
\* refreshToken or resetPassword has a document in refreshTokens when the
\* call returns.
C2_ReturnedRefreshTokenIsStored ==
  [][\A p \in Procs :
       (Returned(p) /\ ret'.ok /\ ret'.op \in RefreshOps)
         => CountOf(refreshTokens', ret'.refreshToken) >= 1]_vars

\* C3: verifyEmail on an Unverified user returns a pair whose verify claim is
\* Verified.
C3_VerifyEmailClaimsAreVerified ==
  [][\A p \in Procs :
       (/\ pc[p] = "verifyEmail:sign"
        /\ loc[p].user.verify = "Unverified"
        /\ VerifyEmailReturn(p))
         => /\ ret'.accessToken.verify = "Verified"
            /\ ret'.refreshToken.verify = "Verified"]_vars

\* C4: every refresh token of a chain of rotations that starts at a token
\* issued by login or register, each rotation given the exp of the token it
\* replaces, has the exp of the first token, and so has its stored document.
C4_RotationKeepsExp ==
  \A c \in chain :
    /\ c[1].exp = c[2]
    /\ \A d \in Matching(refreshTokens, c[1]) : d.exp = c[2]

\* A token two rotations away from login or register, signed after the clock
\* moved: a fresh expiry would be later than the one it carries.
C4_Witness ==
  \E c \in chain :
    /\ c[1].shape = "exp"
    /\ c[1].iat + JWT_REFRESH_TOKEN_EXPIRED_IN > c[2]
    /\ ret.op = "refreshToken" /\ ret.ok /\ ret.refreshToken = c[1]
    /\ ret.token.shape = "exp"
    /\ CountOf(refreshTokens, c[1]) >= 1

\* C5: a refreshToken call whose delete found no document (another call on
\* the same token deleted it first) still goes on to decode, to insert its
\* new token and to return its pair: two calls on one token both succeed.
C5_BothRotationsSucceed ==
  [][\A p \in Procs :
       /\ (Settled(p, "refreshToken:signAndDelete") /\ RefreshTokenDecode(p))
            => /\ pc'[p] = "refreshToken:decode"
               /\ refreshTokens' = refreshTokens
       /\ (/\ Settled(p, "refreshToken:decode")
           /\ loc[p].failure = "none"
           /\ RefreshTokenIssueInsertToken(p))
            => pc'[p] = "refreshToken:insertToken"
       /\ (Acts(p, "refreshToken:insertToken", "insert") /\ RefreshTokenInsertToken(p))
            => CountOf(refreshTokens', loc[p].refreshToken)
                 = CountOf(refreshTokens, loc[p].refreshToken) + 1
       /\ (Settled(p, "refreshToken:insertToken") /\ RefreshTokenReturn(p))
            => /\ ret'.ok
               /\ ret'.refreshToken = loc[p].refreshToken
               /\ ret'.accessToken = loc[p].accessToken]_vars

\* Two calls were in flight at once on one token that had one document: the
\* call whose delete removed it has returned a pair, and now the call whose
\* delete removed nothing has returned a pair too.
C5_Witness ==
  /\ ret.op = "refreshToken" /\ ret.ok
  /\ ret.again /\ ret.overlap
  /\ ret.deleted = 0 /\ ret.before = 1
  /\ CountOf(refreshTokens, ret.refreshToken) >= 1

\* C6 as stated: register creates exactly one user, Unverified and holding
\* the mailed verify-email token, inserts exactly one RefreshToken document,
\* for the returned refresh token, and returns a pair whose role, verify and
\* status claims equal those of the stored user when the call returns.
C6_RegisterClaimsEqualStoredUser ==
  [][\A p \in Procs :
       /\ (Acts(p, "register:sendAndInsert", "write") /\ RegisterInsertUser(p))
            => /\ DOMAIN users' \ DOMAIN users = {loc[p].userId}
               /\ \A i \in DOMAIN users : users'[i] = users[i]
               /\ users'[loc[p].userId].verify = "Unverified"
               /\ users'[loc[p].userId].verifyEmailToken = loc[p].signed
               /\ loc[p].signed.tokenType = "VerifyEmail"
               /\ loc[p].signed.userId = loc[p].userId
       /\ (Acts(p, "register:sendAndInsert", "mail") /\ RegisterSendVerifyEmail(p, TRUE))
            => loc'[p].mailed = [to |-> loc[p].email, token |-> loc[p].doc.verifyEmailToken]
       /\ (Acts(p, "register:findOne", "read") /\ RegisterFindOne(p))
            => /\ loc[p].userId \in DOMAIN users
               /\ loc'[p].user = users[loc[p].userId]
       /\ (Acts(p, "register:insertToken", "insert") /\ RegisterInsertToken(p))
            => /\ BagCardinality(refreshTokens') = BagCardinality(refreshTokens) + 1
               /\ CountOf(refreshTokens', loc[p].refreshToken)
                    = CountOf(refreshTokens, loc[p].refreshToken) + 1
       /\ (loc[p].op = "register" /\ loc'[p] /= loc[p])
            => /\ users' = users \/ RegisterInsertUser(p)
               /\ refreshTokens' = refreshTokens \/ RegisterInsertToken(p)
       /\ (Settled(p, "register:insertToken") /\ RegisterReturn(p))
            => /\ ret'.ok
               /\ ret'.refreshToken = loc[p].refreshToken
               /\ ret'.accessToken.tokenType = "Access"
               /\ ret'.refreshToken.tokenType = "Refresh"
               /\ ret'.mailed.token = loc[p].doc.verifyEmailToken
               /\ \A tok \in {ret'.accessToken, ret'.refreshToken} :
                    /\ tok.userId = loc[p].userId
                    /\ tok.role = loc[p].user.role
                    /\ tok.verify = loc[p].user.verify
                    /\ tok.status = loc[p].user.status
                    /\ tok.role = users'[loc[p].userId].role
                    /\ tok.status = users'[loc[p].userId].status
                    /\ tok.verify = users'[loc[p].userId].verify]_vars

\* C6 as amended: register creates exactly one user, Unverified and holding
\* the mailed verify-email token, reads it back, inserts exactly one
\* RefreshToken document, for the returned refresh token, and returns a pair
\* whose role, verify and status claims are those of the user as the call read
\* it back; role and status equal the stored user's when the call returns, and
\* so does verify unless a verifyEmail call has verified the user since the
\* read (the pair then says Unverified, the stored user Verified).
C6_RegisterCreatesOneUserOneRecord ==
  [][\A p \in Procs :
       /\ (Acts(p, "register:sendAndInsert", "write") /\ RegisterInsertUser(p))
            => /\ DOMAIN users' \ DOMAIN users = {loc[p].userId}
               /\ \A i \in DOMAIN users : users'[i] = users[i]
               /\ users'[loc[p].userId].verify = "Unverified"
               /\ users'[loc[p].userId].verifyEmailToken = loc[p].signed
               /\ loc[p].signed.tokenType = "VerifyEmail"
               /\ loc[p].signed.userId = loc[p].userId
       /\ (Acts(p, "register:sendAndInsert", "mail") /\ RegisterSendVerifyEmail(p, TRUE))
            => loc'[p].mailed = [to |-> loc[p].email, token |-> loc[p].doc.verifyEmailToken]
       /\ (Acts(p, "register:findOne", "read") /\ RegisterFindOne(p))
            => /\ loc[p].userId \in DOMAIN users
               /\ loc'[p].user = users[loc[p].userId]
       /\ (Acts(p, "register:insertToken", "insert") /\ RegisterInsertToken(p))
            => /\ BagCardinality(refreshTokens') = BagCardinality(refreshTokens) + 1
               /\ CountOf(refreshTokens', loc[p].refreshToken)
                    = CountOf(refreshTokens, loc[p].refreshToken) + 1
       /\ (loc[p].op = "register" /\ loc'[p] /= loc[p])
            => /\ users' = users \/ RegisterInsertUser(p)
               /\ refreshTokens' = refreshTokens \/ RegisterInsertToken(p)
       /\ (Settled(p, "register:insertToken") /\ RegisterReturn(p))
            => /\ ret'.ok
               /\ ret'.refreshToken = loc[p].refreshToken
               /\ ret'.accessToken.tokenType = "Access"
               /\ ret'.refreshToken.tokenType = "Refresh"
               /\ ret'.mailed.token = loc[p].doc.verifyEmailToken
               /\ \A tok \in {ret'.accessToken, ret'.refreshToken} :
                    /\ tok.userId = loc[p].userId
                    /\ tok.role = loc[p].user.role
                    /\ tok.verify = loc[p].user.verify
                    /\ tok.status = loc[p].user.status
                    /\ tok.role = users'[loc[p].userId].role
                    /\ tok.status = users'[loc[p].userId].status
                    /\ tok.verify /= users'[loc[p].userId].verify
                         => /\ tok.verify = "Unverified"
                            /\ users'[loc[p].userId].verify = "Verified"]_vars

\* register has returned: one user, Unverified, holding the mailed token, and
\* one document, of the returned refresh token, whose claims are the user's.
C6_Witness ==
  /\ ret.op = "register" /\ ret.ok
  /\ DOMAIN users = {ret.userId}
  /\ users[ret.userId].verify = "Unverified"
  /\ users[ret.userId].verifyEmailToken = ret.mailed.token
  /\ ret.refreshToken.verify = "Unverified"
  /\ BagCardinality(refreshTokens) = 1
  /\ CountOf(refreshTokens, ret.refreshToken) = 1

\* C7: a refreshToken call on a token that has a document, with no other call
\* in flight, once it returns, leaves no document of the old token and
\* exactly one of the new token, and the number of documents is what it was.
C7_RotationReplacesTheRecord ==
  [][\A p \in Procs :
       (/\ Settled(p, "refreshToken:insertToken")
        /\ loc[p].deleted = 1
        /\ RefreshTokenReturn(p))
         => /\ CountOf(refreshTokens', loc[p].token) = 0
            /\ CountOf(refreshTokens', ret'.refreshToken) = 1
            /\ BagCardinality(refreshTokens') = loc[p].count]_vars

\* C8: verifyEmail leaves the verify-email token empty and the user Verified
\* and returns; a second call returns too and leaves both as the first left
\* them.
C8_VerifyEmailIdempotent ==
  [][\A p \in Procs :
       /\ (/\ Acts(p, "verifyEmail:findOneAndUpdate", "write")
           /\ loc[p].userId \in DOMAIN users
           /\ VerifyEmailFindOneAndUpdate(p))
            => /\ users'[loc[p].userId].verifyEmailToken = EmptyString
               /\ users'[loc[p].userId].verify = "Verified"
               /\ loc'[p].user /= Null
               /\ (/\ ret.op = "verifyEmail" /\ ret.userId = loc[p].userId /\ ret.ok
                   /\ users[loc[p].userId].verifyEmailToken = EmptyString)
                    => /\ users'[loc[p].userId].verify = users[loc[p].userId].verify
                       /\ users'[loc[p].userId].verifyEmailToken
                            = users[loc[p].userId].verifyEmailToken
       /\ (/\ Settled(p, "verifyEmail:findOneAndUpdate")
           /\ loc[p].user /= Null
           /\ VerifyEmailSign(p))
            => pc'[p] = "verifyEmail:sign"
       /\ (Settled(p, "verifyEmail:sign") /\ VerifyEmailReturn(p))
            => /\ ret'.ok
               /\ users' = users]_vars

\* verifyEmail has just returned for the second time in a row for the user.
C8_Witness ==
  /\ ret.op = "verifyEmail" /\ ret.ok /\ ret.again
  /\ users[ret.userId].verify = "Verified"
  /\ users[ret.userId].verifyEmailToken = EmptyString

\* C9: logout(t) returns whether or not t has a document, leaves no document
\* of t and leaves the documents of every other token as they were.
C9_LogoutRevokesOnlyItsToken ==
  [][\A p \in Procs :
       /\ (Acts(p, "logout:deleteOne", "delete") /\ LogoutDeleteOne(p))
            => /\ CountOf(refreshTokens', loc[p].token) = 0
               /\ \A o \in KnownTokens \ {loc[p].token} :
                    CountOf(refreshTokens', o) = CountOf(refreshTokens, o)
       /\ (Settled(p, "logout:deleteOne") /\ LogoutReturn(p))
            => /\ ret'.ok
               /\ CountOf(refreshTokens', loc[p].token) = 0]_vars

\* C10: resendEmailVerify, verifyEmail, forgotPassword and resetPassword called
\* for a userId with no user fail and do nothing: no mail, no write, no tokens.
C10_MissingUserFailsWithoutEffect ==
  [][\A p \in Procs :
       (/\ loc[p].op \in {"resendEmailVerify", "verifyEmail", "forgotPassword", "resetPassword"}
        /\ loc[p].userId \notin DOMAIN users)
         => /\ loc'[p] /= loc[p] => loc'[p].mailed = NoMail /\ users' = users
            /\ Returned(p) => /\ ~ret'.ok
                              /\ ret'.mailed = NoMail
                              /\ ret'.refreshToken = EmptyString
                              /\ ret'.accessToken = EmptyString]_vars

\* C12: resetPassword changes only the user's password (to the hash of the new
\* password), forgot-password token (to empty) and updatedAt; createdAt,
\* email, role, verification status and account status stay as they were.
C12_ResetPasswordFrame ==
  [][\A p \in Procs :
       (/\ Acts(p, "resetPassword:findOneAndUpdate", "write")
        /\ loc[p].userId \in DOMAIN users
        /\ ResetPasswordFindOneAndUpdate(p))
         => /\ users'[loc[p].userId].password = HashPassword(loc[p].password)
            /\ users'[loc[p].userId].forgotPasswordToken = EmptyString
            /\ users'[loc[p].userId].createdAt = users[loc[p].userId].createdAt
            /\ users'[loc[p].userId].email = users[loc[p].userId].email
            /\ users'[loc[p].userId].role = users[loc[p].userId].role
            /\ users'[loc[p].userId].verify = users[loc[p].userId].verify
            /\ users'[loc[p].userId].status = users[loc[p].userId].status
            /\ users'[loc[p].userId].verifyEmailToken = users[loc[p].userId].verifyEmailToken]_vars

\* Position of the first run of a handler in the request, 0 if it has not run.
RanAt(h) ==
  IF \E i \in DOMAIN req.ran : req.ran[i] = h
  THEN CHOOSE i \in DOMAIN req.ran : req.ran[i] = h /\ \A j \in 1..(i - 1) : req.ran[j] /= h
  ELSE 0

\* C11: on a route with a verifiedUserValidator / isAdminValidator gate,
\* accessTokenValidator runs before the gate and the gate before every other
\* validator and the controller; the controller runs only after the token
\* check and the gate both passed; every route that creates, updates or
\* deletes has such a gate.
C11_GateBeforeHandlers ==
  /\ \A r \in Routes : Mutating(r) => HasGate(r)
  /\ (req.status /= "idle" /\ HasGate(req.route)) =>
       /\ \A i \in DOMAIN req.ran :
            /\ req.ran[i] \in Gates
                 => /\ i > 1
                    /\ \A j \in 1..(i - 1) : req.ran[j] = "accessTokenValidator"
            /\ req.ran[i] \notin Gates \cup {"accessTokenValidator"}
                 => \E j \in 1..(i - 1) : req.ran[j] \in Gates
       /\ RanAt(Controller(req.route)) > 0 =>
            /\ "accessTokenValidator" \in req.passed
            /\ \E g \in Gates : g \in req.passed
            /\ req.decodedAuthorization /= NoPayload
            /\ \A g \in Gates \cap req.passed : GateAllows(g, req.decodedAuthorization)
       /\ req.status \in {"Unauthorized", "Forbidden"} => RanAt(Controller(req.route)) = 0

\* The controller of a gated route that creates, updates or deletes has run,
\* after the token check, the gate and two more validators.
C11_Witness ==
  /\ req.status = "OK"
  /\ HasGate(req.route) /\ Mutating(req.route)
  /\ Len(req.ran) >= 5
  /\ req.ran[1] = "accessTokenValidator"
  /\ req.ran[2] \in Gates
====
